---------------------------- MODULE Spec2Model ----------------------------
(***************************************************************************)
(* A model of the solar collector / storage tank simulation engine of      *)
(* thermoSim (src/backend/calculations.js, lines 99-419: the current       *)
(* engine; lines 1-97 are an earlier variant that module.exports at line   *)
(* 414 replaces) and of the unit conversions of src/backend/utils.js.      *)
(*                                                                         *)
(* Numbers.  The program computes with IEEE doubles; the model computes    *)
(* with scaled integers, every quantity carrying its unit in its name or   *)
(* comment:                                                                *)
(*    temperatures            milli-degrees        (20 C  = 20000)         *)
(*    efficiency, pumpEff.    thousandths          (0.8   = 800)           *)
(*    transmittance, absorpt. hundredths           (0.9   = 90)            *)
(*    cloudCover              hundredths           (0.5   = 50)            *)
(*    mass flow rate          milligrams / second  (0.03 kg/s = 30000)     *)
(*    capacitance rate        thousandths                                  *)
(*    F_R, F_prime_prime      millionths           (0.8   = 800000)        *)
(*    irradiance, q_u         millionths of MJ/m2  (3.6 MJ = 3600000)      *)
(* A product or quotient is rounded toward zero, except that a nonzero     *)
(* exact result is never rounded to zero: doubles do not underflow in the  *)
(* range of the program, so x*y = 0 only if x = 0 or y = 0.                *)
(***************************************************************************)
EXTENDS Integers, Sequences, FiniteSets, TLC

(***************************************************************************)
(*                         scaled-integer arithmetic                       *)
(***************************************************************************)
Abs(x) == IF x < 0 THEN -x ELSE x

Sgn(x) == IF x < 0 THEN -1 ELSE IF x = 0 THEN 0 ELSE 1

Max(a, b) == IF a >= b THEN a ELSE b

\* One digit of the long multiplication below: from a*hi = h[1]*c + h[2] to
\* <<q, r>> with a*(hi*base + digit) = q*c + r.
digitStep(h, a, digit, base, c) ==
    <<h[1] * base + (a \div c) * digit + ((h[2] * base + (a % c) * digit) \div c),
      (h[2] * base + (a % c) * digit) % c>>

\* <<q, r>> with a*b = q*c + r and 0 <= r < c, for naturals a, b and
\* 0 < c <= 2^29.  When a*b leaves 32 bits, b is taken digit by digit in the
\* largest base for which no intermediate value does.
RECURSIVE QuotRem(_, _, _)
QuotRem(a, b, c) ==
    IF a = 0 \/ b = 0 THEN <<0, 0>>
    ELSE IF b <= 2147483647 \div a THEN <<(a * b) \div c, (a * b) % c>>
    ELSE digitStep(QuotRem(a, b \div (1073741824 \div c), c), a,
                   b % (1073741824 \div c), 1073741824 \div c, c)

\* The magnitude of a quotient: toward zero, never to zero from a nonzero
\* exact value.
magnitude(qr) == IF qr[1] = 0 /\ qr[2] # 0 THEN 1 ELSE qr[1]

\* NaN, the double that parseFloat gives for what is no number and that every
\* operation on it gives again: a value outside the range of every quantity.
NaN == -2000000000

\* a + b of doubles
plus(a, b) == IF a = NaN \/ b = NaN THEN NaN ELSE a + b

\* a - b of doubles
minus(a, b) == IF a = NaN \/ b = NaN THEN NaN ELSE a - b

\* a*b/c of numbers, at the resolution of the result's unit
quotient(a, b, c) ==
    Sgn(a) * Sgn(b) * Sgn(c) * magnitude(QuotRem(Abs(a), Abs(b), Abs(c)))

\* a*b/c as the program's floating point gives it, at the resolution of the
\* result's unit.
MulDiv(a, b, c) ==
    IF a = NaN \/ b = NaN \/ c = NaN THEN NaN ELSE quotient(a, b, c)

\* e^(-x) in units of 10^-8 for 0 <= x < 1 (x in the same unit): the Taylor
\* series 1 - x(1 - x/2(1 - x/3(...))) cut after fourteen terms, from the
\* innermost factor (acc) outward.
RECURSIVE ExpSeries(_, _, _)
ExpSeries(x, n, acc) ==
    IF acc >= 0 /\ n = 0 THEN acc
    ELSE ExpSeries(x, n - 1, 100000000 - (QuotRem(x, acc, 100000000)[1] \div n))

\* Math.exp(-(whole + frac)) in units of 10^-8, whole a natural number and
\* frac in units of 10^-8: e^-x = e^-1 * e^-(x-1).  From x = 19 on the value
\* is below one unit; it stays positive, as Math.exp does above -745.
RECURSIVE ExpNeg(_, _)
ExpNeg(whole, frac) ==
    IF whole >= 19 THEN 1
    ELSE IF whole > 0 THEN MulDiv(36787944, ExpNeg(whole - 1, frac), 100000000)
    ELSE ExpSeries(frac, 14, 100000000)

(***************************************************************************)
(*                      src/backend/utils.js                               *)
(***************************************************************************)
\* (tempF - 32) * 5 / 9
fahrenheitToCelsius(tempF) == MulDiv(minus(tempF, 32000), 5, 9)

\* (tempC * 9 / 5) + 32
celsiusToFahrenheit(tempC) == plus(MulDiv(tempC, 9, 5), 32000)

(***************************************************************************)
(*                 getSolarIrradiance (calculations.js 121-137)            *)
(***************************************************************************)
sunrise == 6

sunset == 18

peakIrradiance == 1000

\* Math.cos(angle - Math.PI / 2) ** 2 with angle = PI*(hour-sunrise)/(sunset-
\* sunrise), in millionths, for the integer hours of the cosine branch.  At
\* hour 6 and hour 18 the double is 3.749e-33, not 0 (Math.cos(PI/2) is
\* 6.123e-17): the table holds the smallest positive value there.
cosSquared(hour) ==
    LET k == IF hour <= 12 THEN hour - sunrise ELSE sunset - hour
    IN  CASE k = 0 -> 1
          [] k = 1 -> 66987
          [] k = 2 -> 250000
          [] k = 3 -> 500000
          [] k = 4 -> 750000
          [] k = 5 -> 933013
          [] k = 6 -> 1000000

\* A variant of outsideDaylight: the window half-open, the hour of sunset
\* outside it.
outsideDaylightHalfOpen(hour) == hour < sunrise \/ hour >= sunset

\* The guard of line 127: TRUE when the function returns 0 without computing.
outsideDaylight(hour) == hour < sunrise \/ hour > sunset

\* line 133: peakIrradiance * cos^2, in thousandths of W/m2
clearSkyIrradiance(hour) == MulDiv(peakIrradiance, cosSquared(hour), 1000)

\* line 136: the factor (1 - (cloudCover/100)), in millionths
cloudFactor(cloudCover) == 1000000 - cloudCover * 100

\* MJ/m2/hour in millionths.  Of a NaN hour both comparisons of line 127 are
\* false and the cosine is NaN.
getSolarIrradiance(hour, cloudCover) ==
    IF hour = NaN THEN NaN
    ELSE IF outsideDaylight(hour) THEN 0
    ELSE MulDiv(MulDiv(clearSkyIrradiance(hour), cloudFactor(cloudCover), 1000000),
                36, 10)


(***************************************************************************)
(*          calculatePanelUsefulEnergyGain (calculations.js 165-233)       *)
(***************************************************************************)
\* null, the default of the optional arguments and of absent fields
Null == <<>>

density == 1000

\* 9.81 m/s2 in hundredths
gravity == 981

\* line 170 / line 299: (pumpPower * pumpEfficiency) / (hydraulicHead * gravity
\* * density), m3/s in billionths (mm3/s)
volumetricFlowRate(pumpPower, pumpEfficiency, hydraulicHead) ==
    IF pumpPower = NaN THEN NaN
    ELSE MulDiv(pumpPower * pumpEfficiency, 100000000,
                hydraulicHead * gravity * density)

\* lines 172-175: the supplied mass flow rate, or volumetricFlowRate * density
massFlowRateUsed(pumpPower, pumpEfficiency, hydraulicHead, mass_flow_rate) ==
    IF mass_flow_rate = Null
    THEN MulDiv(volumetricFlowRate(pumpPower, pumpEfficiency, hydraulicHead),
                density, 1000)
    ELSE mass_flow_rate[1]

\* line 204: (mass_flow_rate * specificHeat)/(area * U_L * F_prime)
capacitanceRate(mass_flow_rate, specificHeat, area, U_L, F_prime) ==
    MulDiv(mass_flow_rate, specificHeat, area * U_L * F_prime)

\* line 208: capacitance_rate * (1 - Math.exp(-1 / capacitance_rate))
collectorFlowFactor(capacitance_rate) ==
    LET whole == 1000 \div capacitance_rate
        frac == QuotRem(1000 % capacitance_rate, 100000000, capacitance_rate)[1]
    IN  MulDiv(capacitance_rate, 100000000 - ExpNeg(whole, frac), 100000)

\* A variant of factorsFrom: F_R without the plate efficiency factor.
factorsFromFlowOnly(F_prime_prime, F_prime) ==
    [F_R |-> F_prime_prime, F_prime_prime |-> F_prime_prime]

\* line 211: F_R = F_prime_prime * F_prime
factorsFrom(F_prime_prime, F_prime) ==
    [F_R |-> MulDiv(F_prime_prime, F_prime, 1000), F_prime_prime |-> F_prime_prime]

\* lines 202-216: F_R and F_prime_prime
removalFactors(mass_flow_rate, specificHeat, area, U_L, F_prime) ==
    IF mass_flow_rate # NaN /\ mass_flow_rate > 0
    THEN factorsFrom(collectorFlowFactor(capacitanceRate(mass_flow_rate,
                                                         specificHeat, area, U_L,
                                                         F_prime)),
                     F_prime)
    ELSE [F_R |-> 0, F_prime_prime |-> 0]

\* line 221: U_L * (T_plate - T_ambient) * 3600 / 1000000
U_L_Temp_Quotient(U_L, T_plate, T_ambient) ==
    MulDiv(MulDiv(U_L, minus(T_plate, T_ambient), 1), 36, 10)

\* lines 225-232: Q_u = F_R * area * ((solarIrradiance*transmittance*
\* absorptance) - U_L_Temp_Quotient), q_u = Q_u / area, and the result
usefulGain(f, area, solarIrradiance, transmittance, absorptance, lossRate) ==
    [q_u |-> MulDiv(MulDiv(f.F_R * area,
                           minus(MulDiv(MulDiv(solarIrradiance, transmittance, 100),
                                        absorptance, 100),
                                 lossRate),
                           1000000),
                    1, area),
     F_R |-> f.F_R,
     F_prime_prime |-> f.F_prime_prime]

calculatePanelUsefulEnergyGain(hour, area, efficiency, cloudCover, specificHeat, T_ambient, T_plate, transmittance, absorptance, U_L, pumpPower, hydraulicHead, pumpEfficiency, mass_flow_rate, testAmbient) ==
    usefulGain(removalFactors(massFlowRateUsed(pumpPower, pumpEfficiency,
                                               hydraulicHead, mass_flow_rate),
                              specificHeat, area, U_L, efficiency),
               area, getSolarIrradiance(hour, cloudCover), transmittance,
               absorptance,
               U_L_Temp_Quotient(U_L, T_plate,
                                 IF testAmbient # Null THEN testAmbient[1]
                                 ELSE T_ambient))

(***************************************************************************)
(*          calculateHeatTransferToFluid (calculations.js 254-274)         *)
(***************************************************************************)
\* The two names the else branch assigns without declaring them (lines 269,
\* 270): properties of the global object, undefined until first assigned.
GlobalsInit == [T_fluid |-> Null, T_plate |-> Null]

\* lines 269-272: T_fluid and T_plate are assigned, which writes the two
\* properties of the global object, and the values just written are returned.
assignGlobals(fluid, plate) ==
    [T_fluid |-> fluid, T_plate |-> plate,
     globals |-> [T_fluid |-> <<fluid>>, T_plate |-> <<plate>>]]

\* lines 269-270, perLoss being q_u_joules_per_second / (F_R * U_L)
heatedTemps(currentFluidTemp, perLoss, solarPanelVars) ==
    assignGlobals(plus(currentFluidTemp,
                       MulDiv(perLoss, 1000000 - solarPanelVars.F_prime_prime,
                              1000000)),
                  plus(currentFluidTemp,
                       MulDiv(perLoss, 1000000 - solarPanelVars.F_R, 1000000)))

\* A variant of calculateHeatTransferToFluid: without flow the plate gains q_u
\* undivided.
calculateHeatTransferToFluidUndivided(solarPanelVars, currentFluidTemp, U_L, globals) ==
    IF solarPanelVars.F_R = 0
    THEN [T_fluid |-> currentFluidTemp,
          T_plate |-> currentFluidTemp + MulDiv(solarPanelVars.q_u, 1, 1000),
          globals |-> globals]
    ELSE heatedTemps(currentFluidTemp,
                     MulDiv(MulDiv(solarPanelVars.q_u, 1000, 3600), 1000000,
                            solarPanelVars.F_R * U_L),
                     solarPanelVars)

\* A variant of calculateHeatTransferToFluid: with flow, the increments are
\* added to the T_fluid the global object holds from the call before, when it
\* holds one.
calculateHeatTransferToFluidStale(solarPanelVars, currentFluidTemp, U_L, globals) ==
    IF solarPanelVars.F_R = 0
    THEN [T_fluid |-> currentFluidTemp,
          T_plate |-> currentFluidTemp + MulDiv(solarPanelVars.q_u, 1, 1000 * U_L),
          globals |-> globals]
    ELSE heatedTemps(IF globals.T_fluid = Null THEN currentFluidTemp
                     ELSE globals.T_fluid[1],
                     MulDiv(MulDiv(solarPanelVars.q_u, 1000, 3600), 1000000,
                            solarPanelVars.F_R * U_L),
                     solarPanelVars)

\* The result {T_fluid, T_plate} and the global object after the call.
calculateHeatTransferToFluid(solarPanelVars, currentFluidTemp, U_L, globals) ==
    IF solarPanelVars.F_R = 0
    THEN [T_fluid |-> currentFluidTemp,
          T_plate |-> plus(currentFluidTemp,
                           MulDiv(solarPanelVars.q_u, 1, 1000 * U_L)),
          globals |-> globals]
    ELSE heatedTemps(currentFluidTemp,
                     MulDiv(MulDiv(solarPanelVars.q_u, 1000, 3600), 1000000,
                            solarPanelVars.F_R * U_L),
                     solarPanelVars)

(***************************************************************************)
(*          calculateHeatTransferToTank (calculations.js 294-316)          *)
(***************************************************************************)
\* line 303: massFlowRate * specificHeat * (fluidTemp - tankTemp), in mW
heatTransferRate(massFlowRate, specificHeat, fluidTemp, tankTemp) ==
    MulDiv(MulDiv(massFlowRate, specificHeat, 1000), minus(fluidTemp, tankTemp), 1000)

\* line 306: tankVolume * density * specificHeat, in kJ per degree
thermalCapacity(tankVolume, specificHeat) ==
    MulDiv(tankVolume * density, specificHeat, 1000)

\* A variant of calculateHeatTransferToTank: the mass flow rate a constant
\* 0.03 kg/s, whatever the pump power.
calculateHeatTransferToTankFixedFlow(fluidTemp, tankTemp, tankVolume, specificHeat, timeStep, pumpPower, hydraulicHead, pumpEfficiency) ==
    tankTemp
    + MulDiv(MulDiv(heatTransferRate(30000, specificHeat, fluidTemp, tankTemp),
                    timeStep, thermalCapacity(tankVolume, specificHeat)),
             1, 1000)

\* n kept from passing the fluid temperature on its way from the tank's
clampTo(n, fluidTemp, tankTemp) ==
    IF fluidTemp >= tankTemp
    THEN (IF n > fluidTemp THEN fluidTemp ELSE n)
    ELSE (IF n < fluidTemp THEN fluidTemp ELSE n)

\* A variant of calculateHeatTransferToTank: the result kept from passing the
\* fluid temperature.
calculateHeatTransferToTankClamped(fluidTemp, tankTemp, tankVolume, specificHeat, timeStep, pumpPower, hydraulicHead, pumpEfficiency) ==
    clampTo(tankTemp
            + MulDiv(MulDiv(heatTransferRate(
                                massFlowRateUsed(pumpPower, pumpEfficiency,
                                                 hydraulicHead, Null),
                                specificHeat, fluidTemp, tankTemp),
                            timeStep, thermalCapacity(tankVolume, specificHeat)),
                     1, 1000),
            fluidTemp, tankTemp)

\* A variant of calculateHeatTransferToTank: the thermal capacity without the
\* density, tankVolume * specificHeat.
calculateHeatTransferToTankNoDensity(fluidTemp, tankTemp, tankVolume, specificHeat, timeStep, pumpPower, hydraulicHead, pumpEfficiency) ==
    tankTemp
    + MulDiv(MulDiv(heatTransferRate(massFlowRateUsed(pumpPower, pumpEfficiency,
                                                      hydraulicHead, Null),
                                     specificHeat, fluidTemp, tankTemp),
                    timeStep, MulDiv(tankVolume, specificHeat, 1000)),
             1, 1000)

\* lines 294-316
calculateHeatTransferToTank(fluidTemp, tankTemp, tankVolume, specificHeat, timeStep, pumpPower, hydraulicHead, pumpEfficiency) ==
    LET massFlowRate == massFlowRateUsed(pumpPower, pumpEfficiency, hydraulicHead,
                                         Null)
        rate == heatTransferRate(massFlowRate, specificHeat, fluidTemp, tankTemp)
        tankTempChange == MulDiv(MulDiv(rate, timeStep,
                                        thermalCapacity(tankVolume, specificHeat)),
                                 1, 1000)
    IN  plus(tankTemp, tankTempChange)

(***************************************************************************)
(*              simulateTemperature (calculations.js 344-411)              *)
(***************************************************************************)
\* A variant of spread: the fields the parameters already have keep their
\* value.
spreadKeeping(currentParams, entry) ==
    [k \in DOMAIN currentParams \cup DOMAIN entry |->
        IF k \in DOMAIN currentParams THEN currentParams[k] ELSE entry[k]]

\* { ...currentParams, ...inputChanges[step] } (line 361)
spread(currentParams, entry) ==
    [k \in DOMAIN currentParams \cup DOMAIN entry |->
        IF k \in DOMAIN entry THEN entry[k] ELSE currentParams[k]]

\* inputChanges[step], an object, or Null when the schedule has no such key
entryAt(inputChanges, step) ==
    IF step \in DOMAIN inputChanges THEN inputChanges[step] ELSE Null

\* A variant of applyInputChanges: the fluid override converted like the two
\* other temperatures.
applyInputChangesConverted(l, entry) ==
    IF entry = Null THEN l
    ELSE [l EXCEPT
            !.currentParams = spread(l.currentParams, entry),
            !.currentFluidTemp =
                IF "fluidTemp" \in DOMAIN entry
                THEN fahrenheitToCelsius(entry.fluidTemp) ELSE @,
            !.currentPlateTemp =
                IF "fluidTemp" \in DOMAIN entry
                THEN fahrenheitToCelsius(entry.fluidTemp) ELSE @,
            !.currentTankTemp =
                IF "tankTemp" \in DOMAIN entry
                THEN fahrenheitToCelsius(entry.tankTemp) ELSE @]

\* lines 360-370: the parameters and the three temperatures after the
\* schedule entry of this step, if any, has been applied
applyInputChanges(l, entry) ==
    IF entry = Null THEN l
    ELSE [l EXCEPT
            !.currentParams = spread(l.currentParams, entry),
            !.currentFluidTemp =
                IF "fluidTemp" \in DOMAIN entry THEN entry.fluidTemp ELSE @,
            !.currentPlateTemp =
                IF "fluidTemp" \in DOMAIN entry
                THEN fahrenheitToCelsius(entry.fluidTemp) ELSE @,
            !.currentTankTemp =
                IF "tankTemp" \in DOMAIN entry
                THEN fahrenheitToCelsius(entry.tankTemp) ELSE @]

\* line 372
currentHourAt(hour, step) == IF hour = NaN THEN NaN ELSE (hour + step) % 24

\* Math.sin((currentHour - 6) * Math.PI / 12) in millionths.  At hour 18 the
\* double is 1.2e-16, which the sum of line 381 absorbs: 0 here.
sine(currentHour) ==
    LET k == currentHour - 6
        q == IF k < 0 THEN -k ELSE IF k <= 6 THEN k ELSE IF k <= 12 THEN 12 - k
             ELSE IF k <= 18 THEN k - 12 ELSE 24 - k
        v == CASE q = 0 -> 0
               [] q = 1 -> 258819
               [] q = 2 -> 500000
               [] q = 3 -> 707107
               [] q = 4 -> 866025
               [] q = 5 -> 965926
               [] q = 6 -> 1000000
    IN  IF k < 0 \/ k > 12 THEN -v ELSE v

\* Math.sin of line 381, NaN of a NaN hour
sineOf(currentHour) == IF currentHour = NaN THEN NaN ELSE sine(currentHour)

\* The string 'None', by its character codes.  A value that may be a number,
\* null or a string is a tuple: <<n>> the number n, Null, or the codes of a
\* string that holds no number.
NoneText == <<78, 111, 110, 101>>

\* parseFloat(v): the number, and NaN for null and for a string without one
parseFloat(v) == IF Len(v) = 1 THEN v[1] ELSE NaN

\* parseFloat(obj[name]), obj[name] being undefined when obj has no such field
parseFloatOf(obj, name) == IF name \in DOMAIN obj THEN parseFloat(obj[name]) ELSE NaN

\* line 376: currentParams.fixedTemp !== null && currentParams.fixedTemp !==
\* 'None', which holds of undefined too
hasFixedTemp(currentParams) ==
    "fixedTemp" \in DOMAIN currentParams =>
        currentParams.fixedTemp # Null /\ currentParams.fixedTemp # NoneText

\* lines 375-382
ambientTemperature(currentParams, currentHour) ==
    IF hasFixedTemp(currentParams)
    THEN fahrenheitToCelsius(parseFloatOf(currentParams, "fixedTemp"))
    ELSE LET tempAmplitude ==
                 MulDiv(currentParams.maxAmbientTemp - currentParams.minAmbientTemp,
                        1, 2)
             tempMidpoint ==
                 MulDiv(currentParams.maxAmbientTemp + currentParams.minAmbientTemp,
                        1, 2)
         IN  plus(tempMidpoint, MulDiv(tempAmplitude, sineOf(currentHour), 1000000))

\* lines 384-389: the call of calculatePanelUsefulEnergyGain
gainOfStep(p, currentHour, currentAmbientTemp, currentPlateTemp) ==
    calculatePanelUsefulEnergyGain(currentHour, p.area, p.efficiency, p.cloudCover,
                                   p.specificHeat, currentAmbientTemp,
                                   currentPlateTemp, p.transmittance, p.absorptance,
                                   p.U_L, p.pumpPower, p.hydraulicHead,
                                   p.pumpEfficiency, Null, Null)

\* lines 395-398: the call of calculateHeatTransferToTank
tankOfStep(p, currentFluidTemp, currentTankTemp) ==
    calculateHeatTransferToTank(currentFluidTemp, currentTankTemp, p.tankVolume,
                                p.specificHeat, p.timeStep, p.pumpPower,
                                p.hydraulicHead, p.pumpEfficiency)

\* A variant of recordTime: the hour of the day, as the earlier engine stamps
\* its records (line 86).
recordTimeOfDay(step, currentHour) == currentHour

\* line 402: the time field of the record pushed for this step
recordTime(step, currentHour) == step

\* A variant of initialLocals: the three values of the prior state taken as
\* they are.
initialLocalsDirect(initialParams, startStep) ==
    LET cs == initialParams.currentState
    IN  [pc |-> "loop",
         step |-> startStep,
         currentParams |-> initialParams,
         currentFluidTemp |-> IF cs # Null THEN cs[1].fluidTemp
                              ELSE initialParams.fluidTemp,
         currentPlateTemp |-> IF cs # Null THEN cs[1].panelTemp
                              ELSE initialParams.fluidTemp,
         currentTankTemp |-> IF cs # Null THEN cs[1].tankTemp
                             ELSE initialParams.tankTemp,
         temperatures |-> <<>>,
         entered |-> <<>>]

\* lines 345-356: the locals before the loop
initialLocals(initialParams, startStep) ==
    LET cs == initialParams.currentState
    IN  [pc |-> "loop",
         step |-> startStep,
         currentParams |-> initialParams,
         currentFluidTemp |-> IF cs # Null THEN fahrenheitToCelsius(cs[1].fluidTemp)
                              ELSE initialParams.fluidTemp,
         currentPlateTemp |-> IF cs # Null THEN fahrenheitToCelsius(cs[1].panelTemp)
                              ELSE initialParams.fluidTemp,
         currentTankTemp |-> IF cs # Null THEN fahrenheitToCelsius(cs[1].tankTemp)
                             ELSE initialParams.tankTemp,
         temperatures |-> <<>>,
         entered |-> <<>>]

\* lines 392-408: the locals after the iteration.  `entered` is not a variable
\* of the program: it keeps, for each iteration, the values the iteration
\* computed with (the state after the schedule entry, the hour, the gain).
pushRecord(o, currentHour, currentAmbientTemp, solarPanelVars, updatedTemps, tank) ==
    [locals |->
        [o EXCEPT
           !.step = @ + 1,
           !.currentFluidTemp = updatedTemps.T_fluid,
           !.currentPlateTemp = updatedTemps.T_plate,
           !.currentTankTemp = tank,
           !.temperatures =
               Append(@, [time |-> recordTime(o.step, currentHour),
                          fluidTemp |-> updatedTemps.T_fluid,
                          panelTemp |-> updatedTemps.T_plate,
                          tankTemp |-> tank,
                          ambientTemp |-> currentAmbientTemp]),
           !.entered =
               Append(@, [step |-> o.step,
                          currentHour |-> currentHour,
                          currentParams |-> o.currentParams,
                          fluidTemp |-> o.currentFluidTemp,
                          plateTemp |-> o.currentPlateTemp,
                          tankTemp |-> o.currentTankTemp,
                          solarPanelVars |-> solarPanelVars])],
     globals |-> updatedTemps.globals]

\* A variant of afterFluid: the tank exchanges with the fluid temperature the
\* step started from.
afterFluidBefore(o, currentHour, currentAmbientTemp, solarPanelVars, updatedTemps) ==
    pushRecord(o, currentHour, currentAmbientTemp, solarPanelVars, updatedTemps,
               tankOfStep(o.currentParams, o.currentFluidTemp, o.currentTankTemp))

\* lines 395-398
afterFluid(o, currentHour, currentAmbientTemp, solarPanelVars, updatedTemps) ==
    pushRecord(o, currentHour, currentAmbientTemp, solarPanelVars, updatedTemps,
               tankOfStep(o.currentParams, updatedTemps.T_fluid, o.currentTankTemp))

\* lines 391-393
afterGain(o, currentHour, currentAmbientTemp, solarPanelVars, g) ==
    afterFluid(o, currentHour, currentAmbientTemp, solarPanelVars,
               calculateHeatTransferToFluid(solarPanelVars, o.currentFluidTemp,
                                            o.currentParams.U_L, g))

\* lines 384-389
afterAmbient(o, currentHour, currentAmbientTemp, g) ==
    afterGain(o, currentHour, currentAmbientTemp,
              gainOfStep(o.currentParams, currentHour, currentAmbientTemp,
                         o.currentPlateTemp),
              g)

\* lines 372-382
afterInputChanges(o, currentHour, g) ==
    afterAmbient(o, currentHour, ambientTemperature(o.currentParams, currentHour), g)

\* lines 359-408: one iteration of the loop, from the locals l and the global
\* object g to the locals and the global object after it
loopBody(l, initialParams, inputChanges, g) ==
    afterInputChanges(applyInputChanges(l, entryAt(inputChanges, l.step)),
                      currentHourAt(initialParams.hour, l.step), g)

(***************************************************************************)
(*                               the inputs                                *)
(***************************************************************************)
MaxDuration == 3

MaxStartStep == 2

\* The request defaults of the server (src/unnamed/part_000 lines 13-34) with
\* the panel of the engine's tests, temperatures in Celsius.
BaseParams ==
    [area |-> 2, efficiency |-> 800, pumpPower |-> 50, hour |-> 0,
     duration |-> 0, timeStep |-> 3600, minAmbientTemp |-> 15000,
     maxAmbientTemp |-> 25000, cloudCover |-> 0, specificHeat |-> 4186,
     fluidTemp |-> 20000, transmittance |-> 90, absorptance |-> 95,
     tankVolume |-> 1000, tankTemp |-> 20000, pumpEfficiency |-> 700,
     hydraulicHead |-> 5, U_L |-> 8, currentState |-> Null, fixedTemp |-> Null]

\* A prior state as the server hands it on: a record of an earlier response,
\* in Fahrenheit.
PriorStates == {Null, <<[fluidTemp |-> 77000, panelTemp |-> 95000, tankTemp |-> 68000]>>}

StartHours == {11, 17}

InitialParamsSet ==
    {[BaseParams EXCEPT !.pumpPower = pp, !.hour = h, !.duration = d,
                        !.fixedTemp = ft, !.currentState = cs, !.tankTemp = tt] :
        pp \in {0, 50}, h \in StartHours, d \in 0..MaxDuration,
        ft \in {Null, <<20000>>}, cs \in PriorStates, tt \in {20000, 30000}}

\* The partial overrides a schedule entry may hold.
Entries ==
    {[fluidTemp |-> 40000], [tankTemp |-> 35000], [pumpPower |-> 0],
     [pumpPower |-> 50], [fixedTemp |-> <<10000>>], [cloudCover |-> 5000],
     [fluidTemp |-> 30000, tankTemp |-> 30000, area |-> 1]}

\* The schedules: none, one entry at one step, or two entries.
Schedules ==
    {<<>>}
    \cup {[k \in {s} |-> e] : s \in 0..(MaxDuration - 1), e \in Entries}
    \cup {[k \in {0, 2} |-> IF k = 0 THEN [pumpPower |-> 0]
                                      ELSE [pumpPower |-> 50, fixedTemp |-> Null]]}

ArgSet ==
    [initialParams : InitialParamsSet, inputChanges : Schedules,
     startStep : 0..MaxStartStep]

(***************************************************************************)
(*                            the state machine                            *)
(***************************************************************************)
VARIABLES
    args,      \* the arguments simulateTemperature is called with
    run,       \* the locals of each invocation
    globals,   \* the properties of the global object the engine assigns
    call       \* the last direct call of one of the exported functions

vars == <<args, run, globals, call>>

\* The two invocations: "A" alone in Spec, both in SpecTwo.
Runs == {"A", "B"}

Idle ==
    [pc |-> "idle", step |-> 0, currentParams |-> Null, currentFluidTemp |-> 0,
     currentPlateTemp |-> 0, currentTankTemp |-> 0, temperatures |-> <<>>,
     entered |-> <<>>]

Init ==
    /\ args \in ArgSet
    /\ run = [r \in Runs |-> Idle]
    /\ globals = GlobalsInit
    /\ call = Null

\* simulateTemperature is entered: lines 345-356
Call(r) ==
    /\ run[r].pc = "idle"
    /\ run' = [run EXCEPT ![r] = initialLocals(args.initialParams, args.startStep)]
    /\ UNCHANGED <<args, globals, call>>

\* the state after one iteration by invocation r
stepOutcome(r, n) ==
    /\ run' = [run EXCEPT ![r] = n.locals]
    /\ globals' = n.globals

\* one iteration of the loop of line 358
Step(r) ==
    /\ run[r].pc = "loop"
    /\ run[r].step < args.initialParams.duration
    /\ "inputChanges" \in DOMAIN args
    /\ stepOutcome(r, loopBody(run[r], args.initialParams, args.inputChanges,
                               globals))
    /\ UNCHANGED <<args, call>>

\* the loop ends and temperatures is returned: line 410
Return(r) ==
    /\ run[r].pc = "loop"
    /\ ~(run[r].step < args.initialParams.duration)
    /\ run' = [run EXCEPT ![r].pc = "done"]
    /\ UNCHANGED <<args, globals, call>>

Next == Call("A") \/ Step("A") \/ Return("A")

Spec == Init /\ [][Next]_vars

(***************************************************************************)
(* simulateTemperature called as src/backend/server.js and the tests call  *)
(* it: with parameters that have no fixedTemp field, and with or without   *)
(* the schedule argument.                                                  *)
(***************************************************************************)
\* obj without the field name
without(obj, name) == [k \in DOMAIN obj \ {name} |-> obj[k]]

BareStartHours == {10, 23}

\* min and max ambient temperature
AmbientRanges == {<<15000, 25000>>, <<-5000, 10000>>}

BareParamsSet ==
    {[BaseParams EXCEPT !.pumpPower = pp, !.hour = h, !.duration = d,
                        !.fixedTemp = ft, !.minAmbientTemp = a[1],
                        !.maxAmbientTemp = a[2]] :
        pp \in {0, 50}, h \in BareStartHours, d \in 0..MaxDuration,
        ft \in {Null, NoneText}, a \in AmbientRanges}
    \cup {without([BaseParams EXCEPT !.pumpPower = pp, !.hour = h, !.duration = d],
                  "fixedTemp") :
            pp \in {0, 50}, h \in BareStartHours, d \in 0..MaxDuration}

\* with the schedule argument, and without it
ArgSetBare ==
    [initialParams : BareParamsSet,
     inputChanges : {<<>>, [k \in {1} |-> [fixedTemp |-> <<10000>>]],
                     [k \in {1} |-> [fixedTemp |-> Null]]},
     startStep : 0..1]
    \cup [initialParams : BareParamsSet, startStep : 0..1]

InitBare ==
    /\ args \in ArgSetBare
    /\ run = [r \in Runs |-> Idle]
    /\ globals = GlobalsInit
    /\ call = Null

\* line 360 with inputChanges undefined: inputChanges[step] throws a TypeError,
\* which ends the call
Throw(r) ==
    /\ run[r].pc = "loop"
    /\ run[r].step < args.initialParams.duration
    /\ "inputChanges" \notin DOMAIN args
    /\ run' = [run EXCEPT ![r].pc = "threw"]
    /\ UNCHANGED <<args, globals, call>>

NextBare == Call("A") \/ Step("A") \/ Throw("A") \/ Return("A")

SpecBare == InitBare /\ [][NextBare]_vars

(***************************************************************************)
(* Two invocations with the same arguments.  A call runs to completion in  *)
(* the program (one thread, no suspension point in the loop); here the     *)
(* iterations of the two may interleave in any order, which allows more    *)
(* than the program does, and whole calls with other arguments may run in  *)
(* between.                                                                *)
(***************************************************************************)
ArgSetTwo ==
    [initialParams :
        {[BaseParams EXCEPT !.pumpPower = pp, !.hour = 11, !.duration = d,
                            !.currentState = cs] :
            pp \in {0, 50}, d \in 0..MaxDuration, cs \in PriorStates},
     inputChanges :
        {<<>>, [k \in {1} |-> [pumpPower |-> 0]], [k \in {1} |-> [pumpPower |-> 50]],
         [k \in {1} |-> [fluidTemp |-> 40000]]},
     startStep : {0, 1}]

\* the arguments of the calls made in between
OtherArgs ==
    {[initialParams |-> [BaseParams EXCEPT !.hour = 9, !.duration = 2],
      inputChanges |-> <<>>, startStep |-> 0],
     [initialParams |-> [BaseParams EXCEPT !.hour = 12, !.duration = 1,
                                           !.fluidTemp = 50000],
      inputChanges |-> <<>>, startStep |-> 0]}

InitTwo ==
    /\ args \in ArgSetTwo
    /\ run = [r \in Runs |-> Idle]
    /\ globals = GlobalsInit
    /\ call = Null

\* lines 358-410: the loop from the locals l to its end
RECURSIVE wholeCall(_, _, _, _)
wholeCallFrom(n, initialParams, inputChanges) ==
    wholeCall(n.locals, initialParams, inputChanges, n.globals)

wholeCall(l, initialParams, inputChanges, g) ==
    IF l.step < initialParams.duration
    THEN wholeCallFrom(loopBody(l, initialParams, inputChanges, g), initialParams,
                       inputChanges)
    ELSE [locals |-> l, globals |-> g]

\* simulateTemperature(initialParams, inputChanges, startStep), a whole call
simulateTemperature(a, g) ==
    wholeCall(initialLocals(a.initialParams, a.startStep), a.initialParams,
              a.inputChanges, g)

\* A whole call with other arguments: its locals are gone when it returns,
\* what it assigned to the global object stays.
OtherCall ==
    /\ \E a \in OtherArgs : globals' = simulateTemperature(a, globals).globals
    /\ globals' # globals
    /\ UNCHANGED <<args, run, call>>

NextTwo == (\E r \in Runs : Call(r) \/ Step(r) \/ Return(r)) \/ OtherCall

SpecTwo == InitTwo /\ [][NextTwo]_vars

(***************************************************************************)
(* Direct calls of the exported functions (module.exports, lines 414-419), *)
(* one call per behaviour: Init draws the function and its arguments, the  *)
(* action applies it.                                                      *)
(***************************************************************************)
CloudCovers == {0, 25, 50, 100, 5000, 10000}

IrradianceCalls ==
    [fn : {"getSolarIrradiance"}, hour : 0..23, cloudCover : CloudCovers,
     done : {FALSE}]

GainCalls ==
    [fn : {"calculatePanelUsefulEnergyGain"}, hour : {9, 12, 20}, area : {1, 2},
     efficiency : {150, 841, 1000}, cloudCover : {0}, specificHeat : {4186},
     T_ambient : {2000}, T_plate : {20000, 40000}, transmittance : {90},
     absorptance : {95}, U_L : {8}, pumpPower : {0, 1, 50}, hydraulicHead : {5},
     pumpEfficiency : {700}, mass_flow_rate : {Null, <<0>>, <<-1000>>, <<1>>, <<30000>>},
     testAmbient : {Null, <<25000>>}, done : {FALSE}]

\* The gain results handed to calculateHeatTransferToFluid: those of the
\* engine (q_u is 0 when F_R is 0) and, as in the tests, any other.
FluidCalls ==
    [fn : {"calculateHeatTransferToFluid"},
     solarPanelVars :
        [q_u : {-500000, 0, 500000, 1800000}, F_R : {0},
         F_prime_prime : {0}]
        \cup [q_u : {-500000, 0, 500000, 1800000}, F_R : {797506},
              F_prime_prime : {948284}],
     currentFluidTemp : {20000, 35000}, currentPlateTemp : {20000, 35000},
     U_L : {4, 8}, done : {FALSE}]

\* The calls of calculateHeatTransferToTank, which the module does not export:
\* the arguments simulateTemperature passes at lines 395-398, the tank from
\* the default of 1000 down to one that a step's flow fills more than once.
TankCalls ==
    [fn : {"calculateHeatTransferToTank"}, fluidTemp : {20000, 30000, 60000},
     tankTemp : {20000, 30000}, tankVolume : {1, 3, 1000}, specificHeat : {4186},
     timeStep : {3600}, pumpPower : {0, 1, 50}, hydraulicHead : {5},
     pumpEfficiency : {700}, done : {FALSE}]

InitFn ==
    /\ args = [initialParams |-> BaseParams, inputChanges |-> <<>>, startStep |-> 0]
    /\ run = [r \in Runs |-> Idle]
    /\ globals = GlobalsInit
    /\ call \in IrradianceCalls \cup GainCalls \cup FluidCalls \cup TankCalls

\* getSolarIrradiance(hour, cloudCover); `cosine` tells whether the call went
\* past the guard of line 127 to the squared cosine of lines 132-136
ApplyIrradiance ==
    /\ call.fn = "getSolarIrradiance" /\ ~call.done
    /\ call' = [fn |-> call.fn, hour |-> call.hour, cloudCover |-> call.cloudCover,
                done |-> TRUE,
                cosine |-> ~outsideDaylight(call.hour),
                result |-> getSolarIrradiance(call.hour, call.cloudCover)]
    /\ UNCHANGED <<args, run, globals>>

\* calculatePanelUsefulEnergyGain(...); `massFlow` is the mass flow rate the
\* call used (lines 170-175)
ApplyGain ==
    /\ call.fn = "calculatePanelUsefulEnergyGain" /\ ~call.done
    /\ call' = [fn |-> call.fn, efficiency |-> call.efficiency,
                pumpPower |-> call.pumpPower,
                mass_flow_rate |-> call.mass_flow_rate,
                done |-> TRUE,
                massFlow |-> massFlowRateUsed(call.pumpPower, call.pumpEfficiency,
                                              call.hydraulicHead,
                                              call.mass_flow_rate),
                result |-> calculatePanelUsefulEnergyGain(
                               call.hour, call.area, call.efficiency,
                               call.cloudCover, call.specificHeat, call.T_ambient,
                               call.T_plate, call.transmittance, call.absorptance,
                               call.U_L, call.pumpPower, call.hydraulicHead,
                               call.pumpEfficiency, call.mass_flow_rate,
                               call.testAmbient)]
    /\ UNCHANGED <<args, run, globals>>

\* the state after a direct call of calculateHeatTransferToFluid
fluidOutcome(updatedTemps) ==
    /\ call' = [fn |-> call.fn, solarPanelVars |-> call.solarPanelVars,
                currentFluidTemp |-> call.currentFluidTemp,
                currentPlateTemp |-> call.currentPlateTemp, U_L |-> call.U_L,
                done |-> TRUE,
                T_fluid |-> updatedTemps.T_fluid, T_plate |-> updatedTemps.T_plate]
    /\ globals' = updatedTemps.globals

\* calculateHeatTransferToFluid(solarPanelVars, currentFluidTemp, U_L) by a
\* caller that holds the fluid and the plate temperature, as lines 391-393
ApplyFluid ==
    /\ call.fn = "calculateHeatTransferToFluid" /\ ~call.done
    /\ fluidOutcome(calculateHeatTransferToFluid(call.solarPanelVars,
                                                 call.currentFluidTemp, call.U_L,
                                                 globals))
    /\ UNCHANGED <<args, run>>

\* calculateHeatTransferToTank(...); `massFlow` is the mass flow rate the call
\* used (lines 299-300)
ApplyTank ==
    /\ call.fn = "calculateHeatTransferToTank" /\ ~call.done
    /\ call' = [fn |-> call.fn, fluidTemp |-> call.fluidTemp,
                tankTemp |-> call.tankTemp, tankVolume |-> call.tankVolume,
                specificHeat |-> call.specificHeat, timeStep |-> call.timeStep,
                pumpPower |-> call.pumpPower,
                done |-> TRUE,
                massFlow |-> massFlowRateUsed(call.pumpPower, call.pumpEfficiency,
                                              call.hydraulicHead, Null),
                result |-> calculateHeatTransferToTank(
                               call.fluidTemp, call.tankTemp, call.tankVolume,
                               call.specificHeat, call.timeStep, call.pumpPower,
                               call.hydraulicHead, call.pumpEfficiency)]
    /\ UNCHANGED <<args, run, globals>>

NextFn == ApplyIrradiance \/ ApplyGain \/ ApplyFluid \/ ApplyTank

SpecFn == InitFn /\ [][NextFn]_vars

(***************************************************************************)
(* POST /simulate (src/unnamed/part_000 lines 12-63).  The request body is *)
(* an object whose fields are numbers (<<n>>), strings that hold no number *)
(* (their character codes) or absent; temperatures are in Fahrenheit.  The *)
(* handler builds the parameters, calls simulateTemperature and answers    *)
(* with the records converted to Fahrenheit.                               *)
(***************************************************************************)
\* x || d: d when x is NaN or 0
orDefault(x, d) == IF x = NaN \/ x = 0 THEN d ELSE x

\* lines 16, 17: req.body[name] !== undefined ? parseFloat(req.body[name]) : d
parsedOrDefault(body, name, d) == IF name \in DOMAIN body THEN parseFloat(body[name]) ELSE d

\* line 33
fixedTempOf(body) ==
    IF "fixedTemp" \in DOMAIN body /\ body.fixedTemp = NoneText THEN Null
    ELSE <<fahrenheitToCelsius(parseFloatOf(body, "fixedTemp"))>>

\* lines 13-34.  pumpEfficiency arrives in percent and leaves in thousandths.
initialParamsOf(body) ==
    [area |-> orDefault(parseFloatOf(body, "area"), 2),
     efficiency |-> orDefault(parseFloatOf(body, "efficiency"), 150),
     pumpPower |-> parsedOrDefault(body, "pumpPower", 50),
     hour |-> parsedOrDefault(body, "hour", 0),
     duration |-> orDefault(parseFloatOf(body, "duration"), 24),
     timeStep |-> 3600,
     minAmbientTemp |->
         fahrenheitToCelsius(orDefault(parseFloatOf(body, "minAmbientTemp"), 60000)),
     maxAmbientTemp |->
         fahrenheitToCelsius(orDefault(parseFloatOf(body, "maxAmbientTemp"), 80000)),
     cloudCover |-> orDefault(parseFloatOf(body, "cloudCover"), 0),
     specificHeat |-> orDefault(parseFloatOf(body, "specificHeat"), 4186),
     fluidTemp |->
         orDefault(fahrenheitToCelsius(parseFloatOf(body, "fluidTemp")), 68000),
     transmittance |-> orDefault(parseFloatOf(body, "transmittance"), 90),
     absorptance |-> orDefault(parseFloatOf(body, "absorptance"), 95),
     tankVolume |-> orDefault(parseFloatOf(body, "tankVolume"), 1000),
     tankTemp |->
         orDefault(fahrenheitToCelsius(parseFloatOf(body, "tankTemp")), 68000),
     pumpEfficiency |->
         orDefault(MulDiv(parseFloatOf(body, "pumpEfficiency"), 10, 1), 700),
     hydraulicHead |-> orDefault(parseFloatOf(body, "hydraulicHead"), 5),
     U_L |-> orDefault(parseFloatOf(body, "U_L"), 8),
     currentState |->
         IF "currentState" \in DOMAIN body THEN body.currentState ELSE Null,
     fixedTemp |-> fixedTempOf(body)]

\* the four fields of a schedule entry the loop of lines 40-53 converts
convertedFields == {"minAmbientTemp", "maxAmbientTemp", "fluidTemp", "tankTemp"}

\* lines 41-52: each of the four, when the entry has it and it is not 0
convertEntry(entry) ==
    [k \in DOMAIN entry |->
        IF k \in convertedFields /\ entry[k] # 0
        THEN fahrenheitToCelsius(entry[k]) ELSE entry[k]]

\* lines 36, 40-53
inputChangesOf(body) ==
    IF "inputChanges" \in DOMAIN body
    THEN [hour \in DOMAIN body.inputChanges |-> convertEntry(body.inputChanges[hour])]
    ELSE <<>>

\* line 37: req.body.startHour || 0
startStepOf(body) == IF "startHour" \in DOMAIN body THEN body.startHour ELSE 0

\* lines 55-61: the records in Fahrenheit
toFahrenheit(temperatures) ==
    [i \in 1..Len(temperatures) |->
        [time |-> temperatures[i].time,
         fluidTemp |-> celsiusToFahrenheit(temperatures[i].fluidTemp),
         panelTemp |-> celsiusToFahrenheit(temperatures[i].panelTemp),
         tankTemp |-> celsiusToFahrenheit(temperatures[i].tankTemp),
         ambientTemp |-> celsiusToFahrenheit(temperatures[i].ambientTemp)]]

\* a string that holds no number: "abc"
Malformed == <<97, 98, 99>>

\* a request with every field well formed, as the form of the client sends it
FullBody ==
    [area |-> <<2>>, efficiency |-> <<800>>, pumpPower |-> <<50>>, hour |-> <<11>>,
     duration |-> <<2>>, minAmbientTemp |-> <<59000>>, maxAmbientTemp |-> <<77000>>,
     cloudCover |-> <<2000>>, specificHeat |-> <<4000>>, fluidTemp |-> <<77000>>,
     transmittance |-> <<80>>, absorptance |-> <<90>>, tankVolume |-> <<500>>,
     tankTemp |-> <<86000>>, pumpEfficiency |-> <<60>>, hydraulicHead |-> <<4>>,
     U_L |-> <<6>>, fixedTemp |-> NoneText]

\* the fields of the body the handler parses as numbers
NumericFields == DOMAIN FullBody \ {"fixedTemp"}

\* the requests: well formed, with one field malformed or absent, with the
\* pump off, with a fixed ambient temperature, with a schedule, and empty
Bodies ==
    {[FullBody EXCEPT !.duration = <<d>>, !.pumpPower = pp] :
        d \in 1..MaxDuration, pp \in {<<0>>, <<50>>}}
    \cup {[FullBody EXCEPT ![f] = Malformed, !.duration =
              IF f = "duration" THEN Malformed ELSE <<d>>] :
            f \in DOMAIN FullBody, d \in 1..MaxDuration}
    \cup {without([FullBody EXCEPT !.duration = <<d>>], f) :
            f \in DOMAIN FullBody \ {"duration"}, d \in 1..MaxDuration}
    \cup {[FullBody EXCEPT !.fixedTemp = <<50000>>, !.fluidTemp = <<32000>>]}
    \cup {[inputChanges |-> ic, startHour |-> 1] @@ FullBody :
            ic \in {[k \in {1} |-> [fluidTemp |-> 104000]],
                    [k \in {1} |-> [pumpPower |-> 0, tankTemp |-> 0]]}}
    \cup {<<>>}

InitServer ==
    /\ call \in [fn : {"POST /simulate"}, pc : {"received"}, body : Bodies]
    /\ args = Null
    /\ run = [r \in Runs |-> Idle]
    /\ globals = GlobalsInit

\* lines 13-53: the arguments of the call of line 55
Parse ==
    /\ call.pc = "received"
    /\ args' = [initialParams |-> initialParamsOf(call.body),
                inputChanges |-> inputChangesOf(call.body),
                startStep |-> startStepOf(call.body)]
    /\ call' = [call EXCEPT !.pc = "parsed"]
    /\ UNCHANGED <<run, globals>>

\* line 55: simulateTemperature is entered
Enter == call.pc = "parsed" /\ Call("A")

\* lines 55-62: the response
Respond ==
    /\ call.pc = "parsed"
    /\ run["A"].pc = "done"
    /\ call' = [fn |-> call.fn, pc |-> "responded", body |-> call.body,
                temperatures |-> toFahrenheit(run["A"].temperatures)]
    /\ UNCHANGED <<args, run, globals>>

NextServer == Parse \/ Enter \/ Step("A") \/ Return("A") \/ Respond

SpecServer == InitServer /\ [][NextServer]_vars

(***************************************************************************)
(* A run of [0, duration) and its resumption: invocation "A" runs from     *)
(* step 0 without a prior state; once it has returned, invocation "B" is   *)
(* called with the same parameters and schedule, startStep = k and, as     *)
(* currentState, record k-1 of "A" as the server hands it out (part_000    *)
(* lines 55-61, in Fahrenheit) and takes it back (line 32).                *)
(***************************************************************************)
ArgSetResume ==
    [initialParams :
        {[BaseParams EXCEPT !.pumpPower = pp, !.hour = h, !.duration = d] :
            pp \in {0, 50}, h \in StartHours, d \in 2..MaxDuration},
     inputChanges : Schedules,
     startStep : {0}]

InitResume ==
    /\ args \in ArgSetResume
    /\ run = [r \in Runs |-> Idle]
    /\ globals = GlobalsInit
    /\ call = Null

\* the parameters of the resumed call: those of the first, with record k-1 of
\* its response as the prior state
resumedParams(k) ==
    [args.initialParams EXCEPT
        !.currentState = <<toFahrenheit(run["A"].temperatures)[k]>>]

\* simulateTemperature(resumedParams, inputChanges, k) is entered: lines 345-356
Resume(k) ==
    /\ run["A"].pc = "done"
    /\ run["B"].pc = "idle"
    /\ run' = [run EXCEPT !["B"] = initialLocals(resumedParams(k), k)]
    /\ call' = [fn |-> "simulateTemperature", startStep |-> k]
    /\ UNCHANGED <<args, globals>>

NextResume ==
    \/ Call("A") \/ Step("A") \/ Return("A")
    \/ (\E k \in 1..(args.initialParams.duration - 1) : Resume(k))
    \/ Step("B") \/ Return("B")

SpecResume == InitResume /\ [][NextResume]_vars

(***************************************************************************)
(*                    properties of simulateTemperature                    *)
(***************************************************************************)
\* the invocation the properties of Spec speak of
theRun == run["A"]

\* the schedule entry of the i-th iteration the run made
entryOf(i) == entryAt(args.inputChanges, theRun.entered[i].step)

\* the i-th iteration of the run had a schedule entry that carries field
overrides(i, field) == entryOf(i) # Null /\ field \in DOMAIN entryOf(i)

\* C1: a call simulateTemperature(initialParams, inputChanges, startStep)
\* returns max(0, duration - startStep) records, and the record at index i
\* (from 0) has time = startStep + i.
C1_RecordPerStep ==
    /\ \A i \in DOMAIN theRun.temperatures :
          theRun.temperatures[i].time = args.startStep + (i - 1)
    /\ theRun.pc = "done" =>
          Len(theRun.temperatures)
            = Max(0, args.initialParams.duration - args.startStep)

C1_Witness ==
    /\ theRun.pc = "done"
    /\ args.startStep = 1
    /\ args.initialParams.duration = MaxDuration
    /\ Len(theRun.temperatures) = MaxDuration - 1
    /\ theRun.temperatures[2].time = 2

\* C2 as the specification states it: when the schedule has an entry at step
\* s that carries fluidTemp, the record of step s has that fluidTemp.
C2_RecordHoldsOverride ==
    \A i \in DOMAIN theRun.temperatures :
        overrides(i, "fluidTemp") =>
            theRun.temperatures[i].fluidTemp = entryOf(i).fluidTemp

\* C2, amended: when the schedule has an entry at step s that carries
\* fluidTemp, that value replaces the fluid temperature step s starts from,
\* whatever step s - 1 left; the fluid update still runs, so the record of
\* step s has the T_fluid that calculateHeatTransferToFluid returns for the
\* override, which is the override itself when F_R is 0.
C2_OverrideEntersUpdate ==
    \A i \in DOMAIN theRun.temperatures :
        overrides(i, "fluidTemp") =>
            /\ theRun.entered[i].fluidTemp = entryOf(i).fluidTemp
            /\ theRun.temperatures[i].fluidTemp
                 = calculateHeatTransferToFluid(
                       theRun.entered[i].solarPanelVars, entryOf(i).fluidTemp,
                       theRun.entered[i].currentParams.U_L, GlobalsInit).T_fluid
            /\ theRun.entered[i].solarPanelVars.F_R = 0 =>
                  theRun.temperatures[i].fluidTemp = entryOf(i).fluidTemp

C2_Witness ==
    \E i \in DOMAIN theRun.temperatures :
        /\ i > 1
        /\ overrides(i, "fluidTemp")
        /\ theRun.entered[i].solarPanelVars.F_R > 0
        /\ theRun.temperatures[i].fluidTemp # entryOf(i).fluidTemp
        /\ theRun.temperatures[i - 1].fluidTemp # entryOf(i).fluidTemp

\* the pump power was 0 in every iteration the run made
pumpOffThroughout ==
    \A i \in DOMAIN theRun.entered : theRun.entered[i].currentParams.pumpPower = 0

\* no entry of the schedule carries tankTemp
noTankOverride ==
    \A s \in DOMAIN args.inputChanges : "tankTemp" \notin DOMAIN args.inputChanges[s]

\* C3: in a run where pumpPower is 0 at every step and the schedule carries
\* no tankTemp override, F_R is 0 at every step and every record's tankTemp
\* is the tank temperature the run started with.
C3_NoFlowKeepsTank ==
    (pumpOffThroughout /\ noTankOverride) =>
        \A i \in DOMAIN theRun.temperatures :
            /\ theRun.entered[i].solarPanelVars.F_R = 0
            /\ theRun.temperatures[i].tankTemp
                 = initialLocals(args.initialParams, args.startStep).currentTankTemp

C3_Witness ==
    /\ theRun.pc = "done"
    /\ Len(theRun.temperatures) = MaxDuration
    /\ pumpOffThroughout /\ noTankOverride
    /\ args.initialParams.tankTemp = 30000
    /\ \A i \in DOMAIN theRun.temperatures :
          /\ theRun.temperatures[i].tankTemp = 30000
          /\ theRun.temperatures[i].fluidTemp # 30000

\* C10 as the specification states it: while fixedTemp is set, the ambient
\* temperature of the step is fixedTemp itself, a Celsius value used without
\* further conversion.
C10_FixedAmbientAsGiven ==
    \A i \in DOMAIN theRun.temperatures :
        theRun.entered[i].currentParams.fixedTemp # Null =>
            theRun.temperatures[i].ambientTemp
              = theRun.entered[i].currentParams.fixedTemp[1]

\* the invocation has been entered and has made no iteration yet
beforeFirstStep == theRun.pc = "loop" /\ theRun.temperatures = <<>>

\* C12 as the specification states it: without a prior state the fluid and
\* the plate temperature entering the first step are the fluidTemp parameter
\* and the tank temperature is the tankTemp parameter; with a prior state they
\* are the three values of that state, taken directly.
C12_PriorStateDirect ==
    beforeFirstStep =>
        IF args.initialParams.currentState = Null
        THEN /\ theRun.currentFluidTemp = args.initialParams.fluidTemp
             /\ theRun.currentPlateTemp = args.initialParams.fluidTemp
             /\ theRun.currentTankTemp = args.initialParams.tankTemp
        ELSE /\ theRun.currentFluidTemp = args.initialParams.currentState[1].fluidTemp
             /\ theRun.currentPlateTemp = args.initialParams.currentState[1].panelTemp
             /\ theRun.currentTankTemp = args.initialParams.currentState[1].tankTemp

\* C12, amended: without a prior state the fluid and the plate temperature
\* entering the first step are the fluidTemp parameter and the tank
\* temperature is the tankTemp parameter; with a prior state, which is in
\* degrees Fahrenheit, they are the three values of that state converted to
\* degrees Celsius.
C12_PriorStateConverted ==
    beforeFirstStep =>
        IF args.initialParams.currentState = Null
        THEN /\ theRun.currentFluidTemp = args.initialParams.fluidTemp
             /\ theRun.currentPlateTemp = args.initialParams.fluidTemp
             /\ theRun.currentTankTemp = args.initialParams.tankTemp
        ELSE /\ theRun.currentFluidTemp
                  = fahrenheitToCelsius(args.initialParams.currentState[1].fluidTemp)
             /\ theRun.currentPlateTemp
                  = fahrenheitToCelsius(args.initialParams.currentState[1].panelTemp)
             /\ theRun.currentTankTemp
                  = fahrenheitToCelsius(args.initialParams.currentState[1].tankTemp)

C12_Witness ==
    /\ beforeFirstStep
    /\ args.initialParams.currentState # Null
    /\ args.initialParams.currentState[1].fluidTemp = 77000
    /\ theRun.currentFluidTemp = 25000
    /\ theRun.currentPlateTemp = 35000
    /\ theRun.currentTankTemp = 20000
    /\ args.initialParams.tankTemp = 30000

\* the steps up to that of the i-th iteration at which the schedule names field
namingSteps(i, field) ==
    {t \in args.startStep..theRun.entered[i].step :
        entryAt(args.inputChanges, t) # Null
        /\ field \in DOMAIN entryAt(args.inputChanges, t)}

\* the greatest element of a non-empty set of steps
latest(steps) == CHOOSE t \in steps : \A u \in steps : u <= t

\* the value the schedule gives field for the i-th iteration: that of the last
\* entry naming it, the initial one when none has
scheduled(i, field) ==
    IF namingSteps(i, field) = {} THEN args.initialParams[field]
    ELSE args.inputChanges[latest(namingSteps(i, field))][field]

\* C13: a schedule entry at step s is merged into the current parameters
\* before step s is computed: each field it names has the new value at step s
\* and at the later steps until a later entry names it again, and each field
\* it does not name keeps the value it had at step s - 1.
C13_ScheduleMerge ==
    \A i \in DOMAIN theRun.entered :
        /\ DOMAIN theRun.entered[i].currentParams = DOMAIN args.initialParams
        /\ \A field \in DOMAIN args.initialParams :
              theRun.entered[i].currentParams[field] = scheduled(i, field)

C13_Witness ==
    /\ Len(theRun.entered) = 3
    /\ args.startStep = 0
    /\ args.initialParams.pumpPower = 50
    /\ args.initialParams.fixedTemp # Null
    /\ theRun.entered[1].currentParams.pumpPower = 0
    /\ theRun.entered[2].currentParams.pumpPower = 0
    /\ theRun.entered[2].currentParams.fixedTemp = args.initialParams.fixedTemp
    /\ theRun.entered[3].currentParams.pumpPower = 50
    /\ theRun.entered[3].currentParams.fixedTemp = Null

\* the plate temperature the (i-1)-th iteration left, the initial one for i = 1
plateLeft(i) ==
    IF i = 1 THEN initialLocals(args.initialParams, args.startStep).currentPlateTemp
    ELSE theRun.temperatures[i - 1].panelTemp

\* the tank temperature the (i-1)-th iteration left, the initial one for i = 1
tankLeft(i) ==
    IF i = 1 THEN initialLocals(args.initialParams, args.startStep).currentTankTemp
    ELSE theRun.temperatures[i - 1].tankTemp

\* C16: within a step the order is ambient, collector gain, fluid update,
\* tank exchange, record: the gain of step s uses the plate temperature left
\* by step s - 1 (or the initial or overridden one) and the ambient
\* temperature of step s; the tank exchange uses the fluid temperature the
\* fluid update of step s produced and the tank temperature left by step
\* s - 1; the record holds these values after the updates.
C16_StepOrder ==
    \A i \in DOMAIN theRun.temperatures :
        /\ overrides(i, "fluidTemp") \/ theRun.entered[i].plateTemp = plateLeft(i)
        /\ overrides(i, "tankTemp") \/ theRun.entered[i].tankTemp = tankLeft(i)
        /\ theRun.temperatures[i].ambientTemp
             = ambientTemperature(theRun.entered[i].currentParams,
                                  theRun.entered[i].currentHour)
        /\ theRun.entered[i].solarPanelVars
             = gainOfStep(theRun.entered[i].currentParams,
                          theRun.entered[i].currentHour,
                          theRun.temperatures[i].ambientTemp,
                          theRun.entered[i].plateTemp)
        /\ theRun.temperatures[i].fluidTemp
             = calculateHeatTransferToFluid(
                   theRun.entered[i].solarPanelVars, theRun.entered[i].fluidTemp,
                   theRun.entered[i].currentParams.U_L, GlobalsInit).T_fluid
        /\ theRun.temperatures[i].panelTemp
             = calculateHeatTransferToFluid(
                   theRun.entered[i].solarPanelVars, theRun.entered[i].fluidTemp,
                   theRun.entered[i].currentParams.U_L, GlobalsInit).T_plate
        /\ theRun.temperatures[i].tankTemp
             = tankOfStep(theRun.entered[i].currentParams,
                          theRun.temperatures[i].fluidTemp,
                          theRun.entered[i].tankTemp)

C16_Witness ==
    /\ Len(theRun.temperatures) = 2
    /\ theRun.entered[2].currentParams.pumpPower > 0
    /\ theRun.entered[2].plateTemp = theRun.temperatures[1].panelTemp
    /\ theRun.entered[2].plateTemp # theRun.entered[1].plateTemp
    /\ theRun.temperatures[2].fluidTemp # theRun.entered[2].fluidTemp
    /\ theRun.temperatures[2].tankTemp # theRun.temperatures[1].tankTemp
    /\ theRun.temperatures[2].tankTemp
         # tankOfStep(theRun.entered[2].currentParams, theRun.entered[2].fluidTemp,
                      theRun.entered[2].tankTemp)

\* C19 as the specification states it: when a schedule entry at step s
\* carries fluidTemp, the fluid and the plate temperature that enter step s
\* are the same value in the same unit, and a tankTemp override enters in the
\* same unit as the fluidTemp override.
C19_OverridesInOneUnit ==
    \A i \in DOMAIN theRun.entered :
        overrides(i, "fluidTemp") =>
            /\ theRun.entered[i].plateTemp = theRun.entered[i].fluidTemp
            /\ (overrides(i, "tankTemp")
                 /\ entryOf(i).tankTemp = entryOf(i).fluidTemp)
                  => theRun.entered[i].tankTemp = theRun.entered[i].fluidTemp

(***************************************************************************)
(*                  properties of the exported functions                   *)
(***************************************************************************)
\* a direct call of fn has returned
returned(fn) == call # Null /\ call.fn = fn /\ call.done

\* C4 as the specification states it: getSolarIrradiance returns exactly 0 for
\* every hour of 0..23 outside [6,18), hour 18 included, for any cloud cover,
\* and only the hours 6..17 take the squared-cosine branch.
C4_ZeroOutsideHalfOpenWindow ==
    returned("getSolarIrradiance") =>
        /\ call.hour \notin 6..17 => call.result = 0
        /\ call.cosine => call.hour \in 6..17

\* C4, amended: getSolarIrradiance returns exactly 0, without computing, for
\* every hour of 0..23 outside the closed window [6,18], that is 0..5 and
\* 19..23, for any cloud cover; the hours 6..18 take the squared-cosine
\* branch, hour 18 included, where the result is a positive residue and not 0
\* unless the cloud cover is 100.
C4_ZeroOutsideClosedWindow ==
    returned("getSolarIrradiance") =>
        /\ call.hour \notin sunrise..sunset => call.result = 0 /\ ~call.cosine
        /\ call.hour \in sunrise..sunset => call.cosine
        /\ call.hour = sunset /\ call.cloudCover < 10000 => call.result > 0

C4_Witness ==
    /\ returned("getSolarIrradiance")
    /\ call.hour = 18
    /\ call.cloudCover = 0
    /\ call.cosine
    /\ call.result > 0

\* C5 as the specification states it: for a daylight hour h and a cloud-cover
\* fraction c of [0,1], getSolarIrradiance(h, c) is getSolarIrradiance(h, 0)
\* times (1 - c), so that a cloud cover of 0.5 halves the irradiance.
\* (cloudCover is in hundredths: c = 0.5 is 50.)
C5_FractionScalesIrradiance ==
    (returned("getSolarIrradiance") /\ call.hour \in 7..17
     /\ call.cloudCover \in 0..100) =>
        call.result = MulDiv(getSolarIrradiance(call.hour, 0),
                             100 - call.cloudCover, 100)

\* C6: calculatePanelUsefulEnergyGain returns F_R = F_prime_prime * efficiency,
\* and returns F_R = 0 and F_prime_prime = 0 if and only if the mass flow rate
\* it uses, derived from the pump or supplied, is at most 0.
C6_RemovalFactor ==
    returned("calculatePanelUsefulEnergyGain") =>
        /\ call.result.F_R = MulDiv(call.result.F_prime_prime, call.efficiency, 1000)
        /\ (call.result.F_R = 0 /\ call.result.F_prime_prime = 0)
             <=> call.massFlow <= 0

C6_Witness ==
    /\ returned("calculatePanelUsefulEnergyGain")
    /\ call.mass_flow_rate = Null
    /\ call.pumpPower > 0
    /\ call.massFlow > 0
    /\ call.efficiency < 1000
    /\ call.result.F_R > 0
    /\ call.result.F_R < call.result.F_prime_prime

C9_NothingProcessWide == globals = GlobalsInit

(***************************************************************************)
(*        properties of simulateTemperature, the parameters as given       *)
(***************************************************************************)
\* the current parameters of the i-th iteration configure no fixed ambient
\* temperature: the field is absent, null or 'None'
noFixedTemp(i) ==
    "fixedTemp" \in DOMAIN theRun.entered[i].currentParams =>
        theRun.entered[i].currentParams.fixedTemp \in {Null, NoneText}

\* the ambient temperature of the sinusoid at the hour of the i-th iteration
sinusoid(i) ==
    MulDiv(theRun.entered[i].currentParams.maxAmbientTemp
             + theRun.entered[i].currentParams.minAmbientTemp, 1, 2)
    + MulDiv(MulDiv(theRun.entered[i].currentParams.maxAmbientTemp
                      - theRun.entered[i].currentParams.minAmbientTemp, 1, 2),
             sine((args.initialParams.hour + theRun.entered[i].step) % 24),
             1000000)

\* C11 as the specification states it: when no fixed ambient temperature is
\* configured (the field absent, null or 'None'), the ambientTemp of the
\* record of step s is midpoint + amplitude * sin((hour - 6) * pi / 12) with
\* hour = (startHour + s) mod 24, a finite number within [minAmbientTemp,
\* maxAmbientTemp], minAmbientTemp at hour 0 and maxAmbientTemp at hour 12.
C11_DiurnalAmbient ==
    \A i \in DOMAIN theRun.temperatures :
        noFixedTemp(i) =>
            /\ theRun.temperatures[i].ambientTemp # NaN
            /\ theRun.temperatures[i].ambientTemp = sinusoid(i)
            /\ theRun.temperatures[i].ambientTemp
                 >= theRun.entered[i].currentParams.minAmbientTemp
            /\ theRun.temperatures[i].ambientTemp
                 <= theRun.entered[i].currentParams.maxAmbientTemp
            /\ theRun.entered[i].currentHour = 0 =>
                  theRun.temperatures[i].ambientTemp
                    = theRun.entered[i].currentParams.minAmbientTemp
            /\ theRun.entered[i].currentHour = 12 =>
                  theRun.temperatures[i].ambientTemp
                    = theRun.entered[i].currentParams.maxAmbientTemp

\* C14 as the specification states it: simulateTemperature has no failure
\* outcome; with or without a schedule argument the call never ends by an
\* exception.
C14_NeverThrows == theRun.pc # "threw"

(***************************************************************************)
(*                 properties of calculateHeatTransferToTank               *)
(***************************************************************************)
\* the change of the tank temperature by the formula of C17, for the mass flow
\* rate the call used
tankChange ==
    MulDiv(MulDiv(MulDiv(MulDiv(call.massFlow, call.specificHeat, 1000),
                         call.fluidTemp - call.tankTemp, 1000),
                  call.timeStep,
                  MulDiv(call.tankVolume * 1000, call.specificHeat, 1000)),
           1, 1000)

\* C17: calculateHeatTransferToTank returns tankTemp + massFlow * specificHeat
\* * (fluidTemp - tankTemp) * timeStep / (tankVolume * 1000 * specificHeat),
\* massFlow being pumpPower * pumpEfficiency / (hydraulicHead * 9.81), without
\* clamping: with massFlow > 0 the tank temperature rises when the fluid is
\* warmer, falls when it is colder and stays when they are equal.
C17_TankFormula ==
    returned("calculateHeatTransferToTank") =>
        /\ call.result = call.tankTemp + tankChange
        /\ call.massFlow > 0 =>
              /\ call.fluidTemp > call.tankTemp => call.result > call.tankTemp
              /\ call.fluidTemp < call.tankTemp => call.result < call.tankTemp
              /\ call.fluidTemp = call.tankTemp => call.result = call.tankTemp

C17_Witness ==
    /\ returned("calculateHeatTransferToTank")
    /\ call.pumpPower = 50
    /\ call.tankVolume = 1
    /\ call.fluidTemp = 30000
    /\ call.tankTemp = 20000
    /\ call.result > call.fluidTemp

\* the mass one step pumps is at most the mass of the tank: massFlow * timeStep
\* <= tankVolume * 1000 (in grams)
withinTankMass ==
    MulDiv(call.massFlow, call.timeStep, 1000) <= call.tankVolume * 1000000

\* C20: whenever massFlow * timeStep <= tankVolume * 1000, the tank
\* temperature calculateHeatTransferToTank returns lies in the closed interval
\* between the old tank temperature and the fluid temperature.
C20_TankBetweenInputs ==
    (returned("calculateHeatTransferToTank") /\ withinTankMass) =>
        \/ call.tankTemp <= call.result /\ call.result <= call.fluidTemp
        \/ call.fluidTemp <= call.result /\ call.result <= call.tankTemp

C20_Witness ==
    /\ returned("calculateHeatTransferToTank")
    /\ withinTankMass
    /\ call.pumpPower = 50
    /\ call.tankVolume = 3
    /\ call.fluidTemp = 20000
    /\ call.tankTemp = 30000
    /\ call.result < 22000
    /\ call.result > call.fluidTemp

(***************************************************************************)
(*                        properties of POST /simulate                     *)
(***************************************************************************)
\* the field is absent from the request or holds no number
absentOrMalformed(body, name) == name \notin DOMAIN body \/ parseFloat(body[name]) = NaN

\* the defaults of lines 14-31, as the engine is to receive them
defaults ==
    [area |-> 2, efficiency |-> 150, pumpPower |-> 50, hour |-> 0, duration |-> 24,
     minAmbientTemp |-> fahrenheitToCelsius(60000),
     maxAmbientTemp |-> fahrenheitToCelsius(80000), cloudCover |-> 0,
     specificHeat |-> 4186, fluidTemp |-> 68000, transmittance |-> 90,
     absorptance |-> 95, tankVolume |-> 1000, tankTemp |-> 68000,
     pumpEfficiency |-> 700, hydraulicHead |-> 5, U_L |-> 8]

\* the request has been parsed: args holds what the engine is called with
parsed == call.pc # "received"

\* C15: every request field that is absent or holds no number reaches the
\* engine as its default, the engine receives NaN for no parameter it reads
\* (the fixed ambient temperature included), and a pump power of 0 is passed
\* through as 0.
C15_DefaultsAtBoundary ==
    parsed =>
        /\ \A f \in NumericFields :
              absentOrMalformed(call.body, f) => args.initialParams[f] = defaults[f]
        /\ \A f \in NumericFields : args.initialParams[f] # NaN
        /\ args.initialParams.fixedTemp # <<NaN>>
        /\ ("pumpPower" \in DOMAIN call.body /\ call.body.pumpPower = <<0>>)
              => args.initialParams.pumpPower = 0

(***************************************************************************)
(*                         properties of a resumed run                     *)
(***************************************************************************)
\* two temperatures that differ by no more than the conversions to Fahrenheit
\* and back may make them differ
near(a, b) == Abs(a - b) <= 5

\* two records of the same step with the same temperatures
sameRecord(a, b) ==
    /\ a.time = b.time
    /\ near(a.fluidTemp, b.fluidTemp)
    /\ near(a.panelTemp, b.panelTemp)
    /\ near(a.tankTemp, b.tankTemp)
    /\ near(a.ambientTemp, b.ambientTemp)

\* the resumed run has returned
resumedDone == run["B"].pc = "done"

\* C18: the run resumed at step k from record k-1 of the uninterrupted run,
\* with the same parameters and schedule, returns for the steps k..duration-1
\* the records the uninterrupted run returned for them.
C18_ResumedRunSameRecords ==
    resumedDone =>
        /\ Len(run["B"].temperatures) = args.initialParams.duration - call.startStep
        /\ \A j \in 1..Len(run["B"].temperatures) :
              sameRecord(run["B"].temperatures[j],
                         run["A"].temperatures[call.startStep + j])

=============================================================================
